---- MODULE Spec2Model ----
(***************************************************************************)
(* Node discovery of bitte-cli (lib/src/types.rs): the allocation index    *)
(* normalizer (pull_index), the join of cloud instances with Nomad clients *)
(* and declared state (BitteNode::find_nodes), the snapshot builder        *)
(* (BitteCluster::new) and the cache front end (BitteCluster::init).       *)
(***************************************************************************)
EXTENDS Integers, Sequences, FiniteSets, TLC

VARIABLES
    idxIn,      \* the JSON value handed to pull_index
    idxOut,     \* what pull_index did with it
    joinIn,     \* one cloud instance and the fetched clients, allocations, declared state
    joinOut,    \* the node the join made of it
    pc,         \* where BitteCluster::init / new / BitteNode::find_nodes stands
    site,       \* which call of BitteCluster::new in init is running
    calls,      \* the calls of BitteCluster::new made by this init, in order
    clock,      \* the last value SystemTime::now() returned
    checkedAt,  \* Option: the SystemTime::now() of the ttl check in init
    file,       \* the contents of .cache.json
    fileAtNew,  \* the contents of .cache.json when new was last called
    opened,     \* Option: the contents init read from .cache.json
    newRet,     \* Option: what the last call of new returned
    env,        \* the environment the process was started with
    nomadToken, \* NOMAD_TOKEN in the process environment
    apiClient,  \* Option: the token of the header of nomad_api_client
    task,       \* status of the four fetch tasks spawned by new
    handles,    \* the per-region describe_instances tasks, in spawn order
    fn,         \* the locals of find_nodes: allocs, clients, state, result, next handle
    cluster,    \* Option: the local `cluster` of init
    ret,        \* what the ClusterHandle resolves to
    runs,       \* the number of init calls started
    findIn,     \* a node collection and the needles handed to find_needle / find_needles
    findOut,    \* what find_needle and find_needles returned
    resIn,      \* the terraform output, the autoscaling groups' members, the patterns
    resOut      \* what find_instances returned

ivars == <<idxIn, idxOut>>
jvars == <<joinIn, joinOut>>
fvars == <<findIn, findOut>>
rvars == <<resIn, resOut>>
pvars == <<pc, site, calls, clock, checkedAt, file, fileAtNew, opened, newRet, env,
           nomadToken, apiClient, task, handles, fn, cluster, ret, runs>>

vars == <<idxIn, idxOut, joinIn, joinOut, pc, site, calls, clock, checkedAt, file,
          fileAtNew, opened, newRet, env, nomadToken, apiClient, task, handles, fn,
          cluster, ret, runs, findIn, findOut, resIn, resOut>>

\* Option<T>: None is the empty tuple, Some(x) the one-element tuple.
None == << >>
Some(x) == <<x>>
IsSome(o) == o /= None
Unwrap(o) == o[1]

Min(S) == CHOOSE x \in S : \A y \in S : x <= y

(***************************************************************************)
(* Index normalizer.  Strings are sequences of one-character strings.  A   *)
(* u32 does not fit the integers of TLC, so an unsigned integer is its    *)
(* canonical decimal numeral (no leading zeros), compared digit by digit.  *)
(***************************************************************************)
Digits == {"0", "1", "2", "3", "4", "5", "6", "7", "8", "9"}

DigitVal(c) ==
    CASE c = "0" -> 0 [] c = "1" -> 1 [] c = "2" -> 2 [] c = "3" -> 3
      [] c = "4" -> 4 [] c = "5" -> 5 [] c = "6" -> 6 [] c = "7" -> 7
      [] c = "8" -> 8 [] c = "9" -> 9

\* u32::MAX, 4294967295, as a numeral
U32MaxNumeral == <<"4", "2", "9", "4", "9", "6", "7", "2", "9", "5">>

IsDigitString(s) == \A i \in 1..Len(s) : s[i] \in Digits

\* the numeral without its leading zeros ("007" -> "7", "000" -> "0")
RECURSIVE StripZeros(_)
StripZeros(ds) ==
    IF Len(ds) > 1 /\ ds[1] = "0" THEN StripZeros(Tail(ds)) ELSE ds

\* a <= b for canonical numerals
RECURSIVE NumeralLeqSameLen(_, _)
NumeralLeqSameLen(a, b) ==
    IF a = << >> THEN TRUE
    ELSE IF DigitVal(a[1]) < DigitVal(b[1]) THEN TRUE
    ELSE IF DigitVal(a[1]) > DigitVal(b[1]) THEN FALSE
    ELSE NumeralLeqSameLen(Tail(a), Tail(b))

NumeralLeq(a, b) ==
    \/ Len(a) < Len(b)
    \/ Len(a) = Len(b) /\ NumeralLeqSameLen(a, b)

FitsU32(numeral) == NumeralLeq(numeral, U32MaxNumeral)

\* str::parse::<u32>() on a string of ASCII digits: the empty string and a
\* value above u32::MAX are errors
ParseU32(s) ==
    IF s = << >> \/ ~IsDigitString(s) THEN [k |-> "Err"]
    ELSE IF ~FitsU32(StripZeros(s)) THEN [k |-> "Err"]
    ELSE [k |-> "Ok", v |-> StripZeros(s)]

\* Regex "[0-9]*\]$" matches s from position i: digits up to a "]" that is
\* the last character
MatchesAt(s, i) ==
    /\ i \in 1..Len(s)
    /\ s[Len(s)] = "]"
    /\ \A j \in i..(Len(s) - 1) : s[j] \in Digits

\* faulty variant: the shortest (rightmost) match instead of the leftmost
RegexFindRightmost(s) ==
    IF Len(s) >= 1 /\ s[Len(s)] = "]" THEN Some(<<"]">>) ELSE None

\* Regex::find: the leftmost match, as Option<&str>
RegexFind(s) ==
    LET starts == {i \in 1..Len(s) : MatchesAt(s, i)}
    IN  IF starts = {} THEN None ELSE Some(SubSeq(s, Min(starts), Len(s)))

\* &search[0..search.len() - 1]
IndexSlice(search) == SubSeq(search, 1, Len(search) - 1)

\* #[serde(untagged)] AllocIndex::deserialize: Int(u32) is tried first, then
\* String; a JSON value that is neither is a decode error
AllocIndexDeserialize(json) ==
    IF json.t = "int" /\ ~json.neg /\ FitsU32(json.v)
        THEN [k |-> "Ok", v |-> [t |-> "Int", v |-> json.v]]
    ELSE IF json.t = "str"
        THEN [k |-> "Ok", v |-> [t |-> "String", v |-> json.v]]
    ELSE [k |-> "Err"]

\* pull_index: Ok(AllocIndex::Int), Err(D::Error) or a panic (unwrap)
pull_index(json) ==
    LET buf == AllocIndexDeserialize(json)
    IN  IF buf.k = "Err" THEN [k |-> "Err"]
        ELSE IF buf.v.t = "Int" THEN [k |-> "Ok", v |-> [t |-> "Int", v |-> buf.v.v]]
        ELSE LET found == RegexFind(buf.v.v)
             IN  IF found = None THEN [k |-> "Panic"]
                 ELSE LET index == ParseU32(IndexSlice(Unwrap(found)))
                      IN  IF index.k = "Err" THEN [k |-> "Panic"]
                          ELSE [k |-> "Ok", v |-> [t |-> "Int", v |-> index.v]]

(***************************************************************************)
(* Inputs of the normalizer: every string over a small alphabet up to      *)
(* MaxStrLen, strings and integers around the u32 boundary, a negative     *)
(* integer and a JSON null.                                                *)
(***************************************************************************)
MaxStrLen == 4

Alphabet == {"g", "[", "]", "0", "2"}

RECURSIVE StringsUpTo(_)
StringsUpTo(n) ==
    IF n = 0 THEN {<< >>}
    ELSE LET shorter == StringsUpTo(n - 1)
         IN  shorter \cup {Append(s, c) : s \in {t \in shorter : Len(t) = n - 1}, c \in Alphabet}

Bracketed(prefix, numeral) == prefix \o <<"[">> \o numeral \o <<"]">>

AboveU32Numeral == <<"4", "2", "9", "4", "9", "6", "7", "2", "9", "6">>

BoundaryNumerals ==
    {U32MaxNumeral, AboveU32Numeral, <<"1", "7">>, <<"0">>,
     <<"1", "0", "0", "0", "0", "0", "0", "0", "0", "0", "0">>}

Prefixes == {<< >>, <<"g">>, <<"g", "2">>, <<"[", "g">>}

JsonStr(s) == [t |-> "str", v |-> s]
JsonInt(neg, numeral) == [t |-> "int", neg |-> neg, v |-> numeral]
JsonNull == [t |-> "null"]

IndexInputs ==
    {JsonStr(s) : s \in StringsUpTo(MaxStrLen)}
        \cup {JsonStr(Bracketed(p, n)) : p \in Prefixes, n \in BoundaryNumerals}
        \cup {JsonStr(p \o n) : p \in Prefixes, n \in BoundaryNumerals}
        \cup {JsonInt(FALSE, n) : n \in BoundaryNumerals \cup {<<"2">>}}
        \cup {JsonInt(TRUE, <<"1">>), JsonNull}

IndexPending == [k |-> "Pending"]
JoinPending == [k |-> "Pending"]

\* the parts of the state a specification does not use stay as they are here
IdleIndex == idxIn = JsonNull /\ idxOut = IndexPending
IdleJoin == joinIn = << >> /\ joinOut = JoinPending
IdleFind == findIn = << >> /\ findOut = << >>
IdleResolve == resIn = << >> /\ resOut = << >>
IdlePipeline ==
    /\ pc = "idle" /\ site = "none" /\ calls = << >> /\ clock = 0
    /\ checkedAt = None /\ file = [k |-> "absent"] /\ fileAtNew = None
    /\ opened = None /\ newRet = None /\ env = << >>
    /\ nomadToken = None /\ apiClient = None /\ task = << >> /\ handles = << >>
    /\ fn = << >> /\ cluster = None /\ ret = None /\ runs = 0

InitIndex ==
    /\ idxIn \in IndexInputs
    /\ idxOut = IndexPending
    /\ IdleJoin
    /\ IdleFind
    /\ IdleResolve
    /\ IdlePipeline

\* serde decodes the field through pull_index
DecodeIndex ==
    /\ idxOut = IndexPending
    /\ idxOut' = pull_index(idxIn)
    /\ UNCHANGED <<idxIn, jvars, fvars, rvars, pvars>>

NextIndex == DecodeIndex

SpecIndex == InitIndex /\ [][NextIndex]_vars

(***************************************************************************)
(* Correlation: cloud instance -> BitteNode, joined with the Nomad clients *)
(* by private address, allocations attached by node id, an empty name      *)
(* backfilled from the declared (terraform) state.                         *)
(* An IpAddr is a tuple of octets; its text form is a string.              *)
(***************************************************************************)
Ip1 == <<10, 0, 0, 1>>
Ip2 == <<10, 0, 0, 2>>
PubIp1 == <<54, 0, 0, 1>>
PubIp2 == <<54, 0, 0, 2>>

\* IpAddr::V4(Ipv4Addr::new(0, 0, 0, 0))
no_ip == <<0, 0, 0, 0>>

\* the address texts of the model and the address each one parses to
IpTexts ==
    {<<"10.0.0.1", Ip1>>, <<"10.0.0.2", Ip2>>, <<"54.0.0.1", PubIp1>>,
     <<"54.0.0.2", PubIp2>>, <<"0.0.0.0", no_ip>>}

\* IpAddr::from_str: any other text ("", "core-1", ...) is a parse error
IpFromStr(s) ==
    IF \E e \in IpTexts : e[1] = s
        THEN [k |-> "Ok", v |-> (CHOOSE e \in IpTexts : e[1] = s)[2]]
        ELSE [k |-> "Err"]

\* IpAddr::to_string
IpToString(a) == (CHOOSE e \in IpTexts : e[2] = a)[1]

\* Option<String>::unwrap_or_default
UnwrapOrDefault(o) == IF o = None THEN "" ELSE Unwrap(o)

\* tag.key.as_ref().unwrap_or(&"".to_owned()) == key
TagHasKey(tag, key) == UnwrapOrDefault(tag.key) = key

\* Iterator::find on the tags from position `from` on: the position of the
\* first tag with the key, or 0; the iterator is left behind that position
\* (at the end when nothing is found)
FindTag(tags, from, key) ==
    LET hits == {i \in from..Len(tags) : TagHasKey(tags[i], key)}
    IN  IF hits = {} THEN 0 ELSE Min(hits)

\* .unwrap_or_default().value.unwrap_or_default()
TagValueAt(tags, pos) == IF pos = 0 THEN "" ELSE UnwrapOrDefault(tags[pos].value)

\* IpAddr::from_str(&opt.unwrap_or_default()).unwrap_or(no_ip)
IpOrNoIp(opt) ==
    LET parsed == IpFromStr(UnwrapOrDefault(opt))
    IN  IF parsed.k = "Ok" THEN parsed.v ELSE no_ip

\* impl From<Instance> for BitteNode: both finds run on the one iterator,
\* so the "Name" tag is looked for behind the "UID" tag only
FromInstance(instance) ==
    LET tags == instance.tags
        uidPos == FindTag(tags, 1, "UID")
        rest == IF uidPos = 0 THEN Len(tags) + 1 ELSE uidPos + 1
        namePos == FindTag(tags, rest, "Name")
    IN  [id |-> UnwrapOrDefault(instance.instance_id),
         name |-> TagValueAt(tags, namePos),
         priv_ip |-> IpOrNoIp(instance.private_ip_address),
         pub_ip |-> IpOrNoIp(instance.public_ip_address),
         nixos |-> TagValueAt(tags, uidPos),
         nomad_client |-> None]

\* faulty variant: the client gets the whole allocation list
AllocsOfAnyNode(allocs, client) == allocs

\* allocs_.into_iter().filter(|alloc| alloc.node_id == client.id).collect()
AllocsOf(allocs, client) ==
    LET OnClient(alloc) == alloc.node_id = client.id
    IN  SelectSeq(allocs, OnClient)

\* faulty variant: the join keyed by the public address
FindClientByPubIp(clients, node) ==
    LET hits == {i \in 1..Len(clients) : clients[i].address = Some(node.pub_ip)}
    IN  IF hits = {} THEN None ELSE Some(clients[Min(hits)])

\* clients.iter().find(|client| client.address == Some(node.priv_ip))
FindClient(clients, node) ==
    LET hits == {i \in 1..Len(clients) : clients[i].address = Some(node.priv_ip)}
    IN  IF hits = {} THEN None ELSE Some(clients[Min(hits)])

\* the match arm: the found client with its allocations, or None
AttachClient(clients, allocs, node) ==
    LET found == FindClient(clients, node)
    IN  IF found = None THEN None
        ELSE Some([Unwrap(found) EXCEPT !.allocs = Some(AllocsOf(allocs, Unwrap(found)))])

\* for inst in state.instances.values() { if inst.private_ip ==
\* node.priv_ip.to_string() { node.name = inst.name.clone() } }: no break, the
\* last match in the map's iteration order stays
RECURSIVE BackfillLoop(_, _)
BackfillLoop(node, declared) ==
    IF declared = << >> THEN node
    ELSE LET inst == Head(declared)
             next == IF inst.private_ip = IpToString(node.priv_ip)
                        THEN [node EXCEPT !.name = inst.name] ELSE node
         IN  BackfillLoop(next, Tail(declared))

\* faulty variant: the backfill overwrites a name the cloud inventory gave
BackfillAlways(node, declared) == BackfillLoop(node, declared)

\* if node.name.is_empty() { ... }
Backfill(node, declared) ==
    IF node.name = "" THEN BackfillLoop(node, declared) ELSE node

\* the closure of the .map(): one instance to its node.  `declared` is
\* state.instances.values() in the map's iteration order.
JoinInstance(instance, clients, allocs, declared) ==
    LET node == FromInstance(instance)
        joined == [node EXCEPT !.nomad_client = AttachClient(clients, allocs, node)]
    IN  Backfill(joined, declared)

\* the nodes of one region's response, in the order of its instances
JoinResponse(instances, clients, allocs, declared) ==
    [i \in 1..Len(instances) |-> JoinInstance(instances[i], clients, allocs, declared)]

(***************************************************************************)
(* Inputs of the join: one instance, up to MaxClients Nomad clients, up to *)
(* MaxDeclared declared instances (in the iteration order of the map) and  *)
(* a list of allocations.                                                  *)
(***************************************************************************)
MaxClients == 2
MaxDeclared == 2

Tag(key, value) == [key |-> Some(key), value |-> Some(value)]

NamedTags == <<Tag("Cluster", "c1"), Tag("UID", "nixos-1"), Tag("Name", "web-1")>>
UnnamedTags == <<Tag("Cluster", "c1"), Tag("UID", "nixos-1")>>
NameFirstTags == <<Tag("Name", "web-1"), Tag("UID", "nixos-1"), Tag("Cluster", "c1")>>
NameOnlyTags == <<Tag("Cluster", "c1"), Tag("Name", "web-1")>>

Ec2Instance(id, priv, pub, tags) ==
    [instance_id |-> Some(id), private_ip_address |-> priv,
     public_ip_address |-> pub, tags |-> tags]

JoinInstances ==
    {Ec2Instance("i-1", priv, pub, tags) :
        priv \in {None, Some("10.0.0.1"), Some("10.0.0.2")},
        pub \in {Some("54.0.0.1")},
        tags \in {NamedTags, UnnamedTags, NameFirstTags, NameOnlyTags}}

Client(id, address) == [id |-> id, allocs |-> None, address |-> address]

JoinClients ==
    {Client("abc", Some(Ip1)), Client("def", Some(Ip1)), Client("ghi", None),
     Client("jkl", Some(PubIp1))}

Alloc(id, node_id, index) == [id |-> id, node_id |-> node_id, index |-> index]
IntIndex(numeral) == [t |-> "Int", v |-> numeral]

JoinAllocLists ==
    {<< >>,
     <<Alloc("a1", "def", IntIndex(<<"0">>)), Alloc("a2", "abc", IntIndex(<<"2">>)),
       Alloc("a3", "abc", IntIndex(<<"1">>))>>}

Declared(name, private_ip) ==
    [name |-> name, private_ip |-> private_ip, public_ip |-> ""]

JoinDeclared ==
    {Declared("core-0", "10.0.0.1"), Declared("core-9", "10.0.0.1"),
     Declared("core-1", "10.0.0.2")}

RECURSIVE SeqsUpTo(_, _)
SeqsUpTo(S, n) ==
    IF n = 0 THEN {<< >>}
    ELSE LET shorter == SeqsUpTo(S, n - 1)
         IN  shorter \cup {Append(s, x) : s \in {q \in shorter : Len(q) = n - 1}, x \in S}

InitJoin ==
    /\ joinIn \in [instance : JoinInstances,
                   clients : SeqsUpTo(JoinClients, MaxClients),
                   allocs : JoinAllocLists,
                   declared : SeqsUpTo(JoinDeclared, MaxDeclared)]
    /\ joinOut = JoinPending
    /\ IdleIndex
    /\ IdleFind
    /\ IdleResolve
    /\ IdlePipeline

\* the map closure of find_nodes on one instance of a response
JoinOne ==
    /\ joinOut = JoinPending
    /\ joinOut' = JoinInstance(joinIn.instance, joinIn.clients, joinIn.allocs,
                               joinIn.declared)
    /\ UNCHANGED <<joinIn, ivars, fvars, rvars, pvars>>

NextJoin == JoinOne

SpecJoin == InitJoin /\ [][NextJoin]_vars

(***************************************************************************)
(* The snapshot pipeline: BitteCluster::init (cache front end),            *)
(* BitteCluster::new (token, spawns, cache write) and BitteNode::find_nodes*)
(* (region fan-out, awaits in program order, join).  The sources answer    *)
(* with the fixed inventory below or fail; which of the two is decided     *)
(* when a task completes.                                                  *)
(***************************************************************************)
\* Duration::from_secs(300)
TTL == 300

MaxEpoch == 1
MaxRuns == 2

\* the instants the clock is read at: around each multiple of the TTL
Instants ==
    {0, 1} \cup UNION {{TTL * e - 1, TTL * e, TTL * e + 1} : e \in 1..MaxEpoch}

\* SystemTime::now(): some instant not before the last one read
ClockReads(last) == {i \in Instants : i >= last}

\* ---- the cache file ----
FileAbsent == [k |-> "absent"]
FileGarbage == [k |-> "garbage"]
FileJson(v) == [k |-> "json", v |-> v]

\* Client::default(): what #[serde(skip)] leaves in a deserialized cluster
DefaultClient == "no-token"

\* serde_json::to_writer(file, &cluster): every field but nomad_api_client
Serialize(c) ==
    [name |-> c.name, nodes |-> c.nodes, domain |-> c.domain,
     provider |-> c.provider, s3_cache |-> c.s3_cache, ttl |-> c.ttl]

\* serde_json::from_reader(reader): the fields of the file, the skipped one
\* defaulted; anything but a serialized cluster is an error
Deserialize(content) ==
    IF content.k = "json"
        THEN [k |-> "Ok",
              v |-> [name |-> content.v.name, nodes |-> content.v.nodes,
                     domain |-> content.v.domain, provider |-> content.v.provider,
                     s3_cache |-> content.v.s3_cache,
                     nomad_api_client |-> DefaultClient, ttl |-> content.v.ttl]]
        ELSE [k |-> "Err"]

\* faulty variant: a cluster past its ttl passes the check
DurationSinceAlwaysOk(ttl, earlier) == TRUE

\* faulty variant: a cluster whose ttl is this very instant is rebuilt
DurationSinceStrict(ttl, earlier) == earlier < ttl

\* cluster.ttl.duration_since(SystemTime::now()) is Ok: `earlier` is not
\* later than the ttl (a zero duration is Ok)
DurationSinceOk(ttl, earlier) == earlier <= ttl

\* a snapshot an earlier run left in the file
OldSnapshot(ttl) ==
    [name |-> "c1", nodes |-> << >>, domain |-> "c1.example", provider |-> "AWS",
     s3_cache |-> "s3://old-cache", ttl |-> ttl]

\* ---- the sources ----
ValidRegions == {"eu-central-1", "us-east-2"}

\* Region::from_str
RegionFromStrOk(r) == r \in ValidRegions

CoreTags == <<Tag("Cluster", "c1"), Tag("UID", "nixos-2"), Tag("Name", "core-1")>>

\* the running instances describe_instances reports in a region
RegionInstances(r) ==
    IF r = "eu-central-1"
        THEN <<Ec2Instance("i-1", Some("10.0.0.1"), Some("54.0.0.1"), UnnamedTags)>>
        ELSE <<Ec2Instance("i-2", Some("10.0.0.2"), Some("54.0.0.2"), CoreTags)>>

\* GET /v1/nodes
FetchedClients == <<Client("abc", Some(Ip1))>>

\* GET /v1/allocations: the "Name" of each allocation still undecoded
GoodAllocsJson ==
    <<[id |-> "a1", node_id |-> "abc",
       Name |-> JsonStr(<<"g", "r", "o", "u", "p", "[", "2", "]">>)]>>
MalformedAllocsJson ==
    <<[id |-> "a1", node_id |-> "abc",
       Name |-> JsonStr(<<"g", "r", "o", "u", "p", "[", "]">>)]>>
NullIndexAllocsJson ==
    <<[id |-> "a1", node_id |-> "abc", Name |-> JsonNull]>>

\* .json::<NomadAllocs>(): every "Name" goes through pull_index; the first
\* record that fails decides
DecodeAllocs(raw) ==
    LET decoded == [i \in 1..Len(raw) |-> pull_index(raw[i].Name)]
        bad == {i \in 1..Len(raw) : decoded[i].k /= "Ok"}
    IN  IF bad = {}
            THEN [k |-> "Ok",
                  v |-> [i \in 1..Len(raw) |->
                            Alloc(raw[i].id, raw[i].node_id, decoded[i].v)]]
            ELSE [k |-> decoded[Min(bad)].k]

\* NomadAlloc::find_allocs in its task: how the task ends on a response
AllocTaskStatus(response) ==
    IF response.k = "network-error" THEN "err"
    ELSE LET d == DecodeAllocs(response.v)
         IN  IF d.k = "Ok" THEN "ok" ELSE IF d.k = "Panic" THEN "panic" ELSE "err"

Body(json) == [k |-> "body", v |-> json]

AllocResponses ==
    {Body(GoodAllocsJson), Body(MalformedAllocsJson), Body(NullIndexAllocsJson),
     [k |-> "network-error"]}

\* terraform::output(workspace): the cluster value of the workspace's state
TerraformOutput(workspace) ==
    IF workspace = "clients"
        THEN [instances |-> <<Declared("core-0", "10.0.0.1")>>,
              s3_cache |-> "s3://clients-cache"]
        ELSE [instances |-> <<Declared("core-0-from-core", "10.0.0.1")>>,
              s3_cache |-> "s3://core-cache"]

\* ---- the process environment ----
Environments ==
    [bitte : BOOLEAN,
     NOMAD_TOKEN : {None, Some("env-token"), Some("bad\ntoken")},
     AWS_ASG_REGIONS : {None, Some(<<"eu-central-1">>), Some(<<"us-east-2">>),
                        Some(<<"us-east-2", "eu-central-1">>), Some(<<"">>)},
     AWS_DEFAULT_REGION : {None, Some(<<"eu-central-1">>)}]

\* HeaderValue::from_str: a control character is refused
HeaderValueOk(token) == token /= "bad\ntoken"

TaskIds == {"allocs", "clients", "tf_clients", "tf_core"}
\* what an awaited JoinHandle yields: Ok(Ok(v)), Ok(Err(e)), Err(JoinError)
Finished == {"ok", "err", "panic"}

FnInit == [allocs |-> None, clients |-> None, state |-> None, result |-> << >>, k |-> 1]

Init ==
    /\ pc = "init"
    /\ site = "none"
    /\ calls = << >>
    /\ clock = 0
    /\ checkedAt = None
    /\ file \in {FileAbsent, FileGarbage} \cup {FileJson(OldSnapshot(i)) : i \in Instants}
    /\ fileAtNew = None
    /\ opened = None
    /\ newRet = None
    /\ env \in Environments
    /\ nomadToken = env.NOMAD_TOKEN
    /\ apiClient = None
    /\ task = [id \in TaskIds |-> "idle"]
    /\ handles = << >>
    /\ fn = FnInit
    /\ cluster = None
    /\ ret = None
    /\ runs = 1
    /\ IdleIndex
    /\ IdleJoin
    /\ IdleFind
    /\ IdleResolve

OkRet(c) == [k |-> "Ok", v |-> c]
ErrRet(why) == [k |-> "Err", why |-> why]

\* faulty variant: init answers a failed rebuild with the cluster it has at hand
InitOnNewErrFallback(error, cached) ==
    IF cached = None THEN error ELSE OkRet(Unwrap(cached))

\* the `?` of BitteCluster::new().await? in init: the error is what the
\* ClusterHandle resolves to, whatever init has in `cluster`
InitOnNewErr(error, cached) == error

\* an error leaves new (or find_nodes, whose error or panic new passes on
\* with `??`) and, through the `?` in init, init
Fail(why) ==
    /\ pc' = "done"
    /\ newRet' = Some(ErrRet(why))
    /\ ret' = Some(InitOnNewErr(ErrRet(why), cluster))

\* BitteCluster::new() is called from init
CallNew(from) ==
    /\ pc' = "new_env"
    /\ site' = from
    /\ calls' = Append(calls, from)
    /\ fileAtNew' = Some(file)
    /\ newRet' = None
    /\ task' = [id \in TaskIds |-> "idle"]
    /\ handles' = << >>
    /\ fn' = FnInit

\* what a call of new sets up: the handles and locals of an earlier call
\* are dropped with its frame
callv == <<site, calls, fileAtNew>>
framev == <<task, handles, fn>>
procv == <<env, runs, opened, ivars, jvars, fvars, rvars>>

\* init: File::open(".cache.json").ok(), from_reader, match cluster.ok()
InitOpen ==
    /\ pc = "init"
    /\ opened' = Some(file)
    /\ IF file = FileAbsent
          THEN CallNew("absent") /\ UNCHANGED cluster
          ELSE LET parsed == Deserialize(file)
               IN  IF parsed.k = "Ok"
                      THEN /\ cluster' = Some(parsed.v)
                           /\ pc' = "init_ttl"
                           /\ UNCHANGED <<callv, framev, newRet>>
                      ELSE CallNew("corrupt") /\ UNCHANGED cluster
    /\ UNCHANGED <<clock, checkedAt, file, nomadToken, apiClient, ret, env, runs,
                   ivars, jvars, fvars, rvars>>

\* init: match cluster.ttl.duration_since(SystemTime::now())
InitCheckTtl ==
    /\ pc = "init_ttl"
    /\ \E t \in ClockReads(clock) :
          /\ clock' = t
          /\ checkedAt' = Some(t)
          /\ IF DurationSinceOk(Unwrap(cluster).ttl, t)
                THEN /\ pc' = "done"
                     /\ ret' = Some(OkRet(Unwrap(cluster)))
                     /\ UNCHANGED <<callv, framev, newRet>>
                ELSE CallNew("expired") /\ UNCHANGED ret
    /\ UNCHANGED <<file, nomadToken, apiClient, cluster, procv>>

\* new: env::var("BITTE_CLUSTER")?, "BITTE_DOMAIN", "BITTE_PROVIDER" and its parse
NewEnv ==
    /\ pc = "new_env"
    /\ IF env.bitte
          THEN pc' = "new_token" /\ UNCHANGED <<ret, newRet>>
          ELSE Fail("env")
    /\ UNCHANGED <<callv, task, handles, fn, clock, checkedAt, file, nomadToken,
                   apiClient, cluster, procv>>

\* new: env::var("NOMAD_TOKEN").unwrap_or({ nomad_token()?; set_var; token }):
\* the argument block runs before unwrap_or looks at the variable
NewToken ==
    /\ pc = "new_token"
    /\ \E auth \in {[k |-> "Ok", v |-> "auth-token"], [k |-> "Err"]} :
          IF auth.k = "Err"
             THEN Fail("nomad_token") /\ UNCHANGED <<nomadToken, apiClient>>
             ELSE LET token == IF nomadToken = None THEN auth.v ELSE Unwrap(nomadToken)
                  IN  /\ nomadToken' = Some(auth.v)
                      /\ IF HeaderValueOk(token)
                            THEN /\ apiClient' = Some(token)
                                 /\ pc' = "new_spawn"
                                 /\ UNCHANGED <<ret, newRet>>
                            ELSE Fail("header") /\ UNCHANGED apiClient
    /\ UNCHANGED <<callv, task, handles, fn, clock, checkedAt, file, cluster, procv>>

\* new: the four fetch tasks and the find_nodes task are spawned
NewSpawn ==
    /\ pc = "new_spawn"
    /\ task' = [id \in TaskIds |-> "running"]
    /\ handles' = << >>
    /\ fn' = FnInit
    /\ pc' = "fn_env"
    /\ UNCHANGED <<callv, clock, checkedAt, file, nomadToken, apiClient, cluster, ret,
                   newRet, procv>>

\* the orders a HashSet of these regions may be iterated in
Orders(S) ==
    {s \in SeqsUpTo(S, Cardinality(S)) :
        Len(s) = Cardinality(S) /\ \A i, j \in 1..Len(s) : i /= j => s[i] /= s[j]}

\* format!("{}:{}", asg_regions, default_region).split(":").collect::<HashSet>()
RegionSet(asg, def) == {(asg \o def)[i] : i \in 1..Len(asg \o def)}

\* faulty variant: the split regions are walked as listed, repeats included
RegionsAsListed(asg, def) == {asg \o def}

\* for region in regions.iter(): the set's regions in some order, each once
RegionIteration(asg, def) == Orders(RegionSet(asg, def))

\* find_nodes: the region variables, then one spawned describe_instances per
\* region of the set; Region::from_str(region)? leaves the loop at a name
\* that is no region
FnSpawnRegions ==
    /\ pc = "fn_env"
    /\ IF env.AWS_ASG_REGIONS = None \/ env.AWS_DEFAULT_REGION = None
          THEN Fail("env") /\ UNCHANGED handles
          ELSE \E order \in RegionIteration(Unwrap(env.AWS_ASG_REGIONS),
                                              Unwrap(env.AWS_DEFAULT_REGION)) :
                  LET bad == {i \in 1..Len(order) : ~RegionFromStrOk(order[i])}
                      n == IF bad = {} THEN Len(order) ELSE Min(bad) - 1
                  IN  /\ handles' = [i \in 1..n |-> [region |-> order[i], st |-> "running"]]
                      /\ IF bad = {}
                            THEN pc' = "fn_allocs" /\ UNCHANGED <<ret, newRet>>
                            ELSE Fail("region-name")
    /\ UNCHANGED <<callv, task, fn, clock, checkedAt, file, nomadToken, apiClient,
                   cluster, procv>>

\* ---- the spawned tasks run to their end in any order; what a task ended
\* with stays in its JoinHandle until the handle is awaited ----
CompleteFetch ==
    /\ \E id \in TaskIds :
          /\ task[id] = "running"
          /\ task' = [task EXCEPT ![id] = "finished"]
    /\ UNCHANGED <<pc, callv, handles, fn, clock, checkedAt, file, nomadToken,
                   apiClient, cluster, ret, newRet, procv>>

CompleteRegion ==
    /\ \E i \in 1..Len(handles) :
          /\ handles[i].st = "running"
          /\ handles' = [handles EXCEPT ![i].st = "finished"]
    /\ UNCHANGED <<pc, callv, task, fn, clock, checkedAt, file, nomadToken, apiClient,
                   cluster, ret, newRet, procv>>

\* ---- find_nodes awaits its handles in program order ----
\* let allocs = alloc_handle.await??: the response of GET /v1/allocations
\* decoded in the task, a JoinError when the decode panicked
AwaitAllocs ==
    /\ pc = "fn_allocs"
    /\ task.allocs = "finished"
    /\ \E response \in AllocResponses :
          LET st == AllocTaskStatus(response)
          IN  /\ task' = [task EXCEPT !.allocs = st]
              /\ IF st = "ok"
                    THEN /\ fn' = [fn EXCEPT !.allocs = Some(DecodeAllocs(response.v).v)]
                         /\ pc' = "fn_clients"
                         /\ UNCHANGED <<ret, newRet>>
                    ELSE Fail("allocs") /\ UNCHANGED fn
    /\ UNCHANGED <<callv, handles, clock, checkedAt, file, nomadToken, apiClient,
                   cluster, procv>>

\* let clients = clients_handle.await??
AwaitClients ==
    /\ pc = "fn_clients"
    /\ task.clients = "finished"
    /\ \E st \in {"ok", "err"} :
          /\ task' = [task EXCEPT !.clients = st]
          /\ IF st = "ok"
                THEN /\ fn' = [fn EXCEPT !.clients = Some(FetchedClients)]
                     /\ pc' = "fn_tf_clients"
                     /\ UNCHANGED <<ret, newRet>>
                ELSE Fail("clients") /\ UNCHANGED fn
    /\ UNCHANGED <<callv, handles, clock, checkedAt, file, nomadToken, apiClient,
                   cluster, procv>>

\* faulty variant: no fallback, an error of the "clients" workspace is fatal
AfterTerraformClientsNoFallback(st) ==
    IF st = "ok" THEN "use" ELSE "fail"

\* terra_handle.clients.await?.ok(): a JoinError leaves find_nodes, an Err
\* of the fetch becomes None and the core handle is awaited
AfterTerraformClients(st) ==
    IF st = "panic" THEN "fail" ELSE IF st = "ok" THEN "use" ELSE "core"

\* the task ended with Ok(state), with Err(error), or panicked (JoinError)
AwaitTerraformClients ==
    /\ pc = "fn_tf_clients"
    /\ task.tf_clients = "finished"
    /\ \E st \in Finished :
          LET then == AfterTerraformClients(st)
          IN  /\ task' = [task EXCEPT !.tf_clients = st]
              /\ IF then = "use"
                    THEN /\ fn' = [fn EXCEPT !.state = Some(TerraformOutput("clients"))]
                         /\ pc' = "fn_regions"
                         /\ UNCHANGED <<ret, newRet>>
                    ELSE IF then = "core"
                            THEN pc' = "fn_tf_core" /\ UNCHANGED <<fn, ret, newRet>>
                            ELSE Fail("tf_clients") /\ UNCHANGED fn
    /\ UNCHANGED <<callv, handles, clock, checkedAt, file, nomadToken, apiClient,
                   cluster, procv>>

\* terra_handle.core.await?.expect(..): a JoinError leaves find_nodes, an Err
\* panics find_nodes, which new sees as a JoinError of the nodes task
AwaitTerraformCore ==
    /\ pc = "fn_tf_core"
    /\ task.tf_core = "finished"
    /\ \E st \in Finished :
          /\ task' = [task EXCEPT !.tf_core = st]
          /\ IF st = "ok"
                THEN /\ fn' = [fn EXCEPT !.state = Some(TerraformOutput("core"))]
                     /\ pc' = "fn_regions"
                     /\ UNCHANGED <<ret, newRet>>
                ELSE Fail("tf_core") /\ UNCHANGED fn
    /\ UNCHANGED <<callv, handles, clock, checkedAt, file, nomadToken, apiClient,
                   cluster, procv>>

\* faulty variant: a region whose query failed is skipped
AfterRegionSkip(st) == IF st = "ok" THEN "join" ELSE "skip"

\* faulty variant: the instances are joined whatever the query ended with
AfterRegionAnyway(st) == "join"

\* response.await??: an error of describe_instances leaves find_nodes
AfterRegion(st) == IF st = "ok" THEN "join" ELSE "fail"

\* for response in handles.into_iter() { response.await??; map; append }:
\* one handle is awaited and its instances joined; after the last one
\* find_nodes returns Ok((result, state.s3_cache))
AwaitRegion ==
    /\ pc = "fn_regions"
    /\ fn.k <= Len(handles)
    /\ handles[fn.k].st = "finished"
    /\ \E st \in {"ok", "err"} :
          /\ handles' = [handles EXCEPT ![fn.k].st = st]
          /\ IF AfterRegion(st) = "fail"
                THEN Fail("region") /\ UNCHANGED fn
                ELSE /\ fn' = [fn EXCEPT
                                 !.result = IF AfterRegion(st) = "skip" THEN @
                                            ELSE @ \o JoinResponse(
                                                RegionInstances(handles[fn.k].region),
                                                Unwrap(fn.clients), Unwrap(fn.allocs),
                                                Unwrap(fn.state).instances),
                                 !.k = @ + 1]
                     /\ pc' = IF fn.k = Len(handles) THEN "new_cluster" ELSE "fn_regions"
                     /\ UNCHANGED <<ret, newRet>>
    /\ UNCHANGED <<callv, task, clock, checkedAt, file, nomadToken, apiClient, cluster,
                   procv>>

\* faulty variant: an error of to_writer is dropped like an error of File::create
CacheWriteLenient(createOk, writeOk) ==
    IF ~createOk THEN "kept" ELSE IF writeOk THEN "written" ELSE "torn-ok"

\* File::create(".cache.json").ok(); if let Some(file) = file {
\* serde_json::to_writer(file, &cluster)?; }: create truncates the file,
\* a failed write leaves it truncated or partly written and is returned by `?`
CacheWrite(createOk, writeOk) ==
    IF ~createOk THEN "kept" ELSE IF writeOk THEN "written" ELSE "torn-err"

\* new, after nodes.await??: the cluster with ttl = now + 300 s, the cache
\* write, Ok(cluster); back in init the call site decides what follows
NewCluster ==
    /\ pc = "new_cluster"
    /\ \E t \in ClockReads(clock), createOk \in BOOLEAN, writeOk \in BOOLEAN :
          LET c == [name |-> "c1", domain |-> "c1.example", provider |-> "AWS",
                    nomad_api_client |-> Unwrap(apiClient), nodes |-> fn.result,
                    s3_cache |-> Unwrap(fn.state).s3_cache, ttl |-> t + TTL]
              wrote == CacheWrite(createOk, writeOk)
          IN  /\ clock' = t
              /\ file' = IF wrote = "kept" THEN file
                         ELSE IF wrote = "written" THEN FileJson(Serialize(c))
                         ELSE FileGarbage
              /\ IF wrote = "torn-err"
                    THEN Fail("cache-write") /\ UNCHANGED cluster
                    ELSE /\ cluster' = Some(c)
                         /\ newRet' = Some(OkRet(c))
                         /\ IF site = "corrupt"
                               THEN pc' = "init_ttl" /\ UNCHANGED ret
                               ELSE pc' = "done" /\ ret' = Some(OkRet(c))
    /\ UNCHANGED <<callv, task, handles, fn, checkedAt, nomadToken, apiClient, procv>>

\* the command ends; a later command is a new process with the same
\* environment, the same cache file and a later clock
NextRun ==
    /\ pc = "done"
    /\ runs < MaxRuns
    /\ pc' = "init"
    /\ site' = "none"
    /\ calls' = << >>
    /\ fileAtNew' = None
    /\ opened' = None
    /\ newRet' = None
    /\ checkedAt' = None
    /\ nomadToken' = env.NOMAD_TOKEN
    /\ apiClient' = None
    /\ task' = [id \in TaskIds |-> "idle"]
    /\ handles' = << >>
    /\ fn' = FnInit
    /\ cluster' = None
    /\ ret' = None
    /\ runs' = runs + 1
    /\ UNCHANGED <<clock, file, env, ivars, jvars, fvars, rvars>>

Next ==
    \/ InitOpen
    \/ InitCheckTtl
    \/ NewEnv
    \/ NewToken
    \/ NewSpawn
    \/ FnSpawnRegions
    \/ CompleteFetch
    \/ CompleteRegion
    \/ AwaitAllocs
    \/ AwaitClients
    \/ AwaitTerraformClients
    \/ AwaitTerraformCore
    \/ AwaitRegion
    \/ NewCluster
    \/ NextRun

Spec == Init /\ [][Next]_vars

(***************************************************************************)
(* The resolver over the node collection: BitteFind for BitteNodes.        *)
(* A Uuid is a token; its hyphenated text is a string.                     *)
(***************************************************************************)
MaxNodes == 2
MaxNeedles == 2

\* Uuid::default(): the nil uuid
NilUuid == "nil"

\* the uuids of the model and the lower-case hyphenated text of each
UuidTexts ==
    {<<NilUuid, "00000000-0000-0000-0000-000000000000">>,
     <<"abc", "00000000-0000-0000-0000-000000000abc">>,
     <<"def", "00000000-0000-0000-0000-000000000def">>}

\* id.to_hyphenated().to_string()
UuidToHyphenated(u) == (CHOOSE e \in UuidTexts : e[1] = u)[2]

\* NomadClient::default() (#[derive(Default)])
DefaultNomadClient == [id |-> NilUuid, allocs |-> None, address |-> None]

\* needle.parse::<IpAddr>().ok()
ParseIp(needle) ==
    LET parsed == IpFromStr(needle)
    IN  IF parsed.k = "Ok" THEN Some(parsed.v) ELSE None

\* node.nomad_client.as_ref().unwrap_or(&Default::default())
\*     .id.to_hyphenated().to_string()
ClientIdText(node) ==
    LET client == IF node.nomad_client = None THEN DefaultNomadClient
                  ELSE Unwrap(node.nomad_client)
    IN  UuidToHyphenated(client.id)

\* the closure of find_needle's .find()
NeedleMatches(node, needle) ==
    LET ip == ParseIp(needle)
    IN  \/ node.id = needle
        \/ node.name = needle
        \/ ClientIdText(node) = needle
        \/ Some(node.priv_ip) = ip
        \/ Some(node.pub_ip) = ip

\* self.into_iter().find(..).with_context(..)
find_needle(nodes, needle) ==
    LET hits == {i \in 1..Len(nodes) : NeedleMatches(nodes[i], needle)}
    IN  IF hits = {} THEN [k |-> "Err", why |-> needle]
        ELSE [k |-> "Ok", v |-> nodes[Min(hits)]]

\* Vec::contains
Contains(seq, x) == \E i \in 1..Len(seq) : seq[i] = x

\* the closure of find_needles' .filter()
NeedlesMatch(node, needles) ==
    LET ips == [i \in 1..Len(needles) |-> ParseIp(needles[i])]
    IN  \/ Contains(needles, node.id)
        \/ Contains(needles, node.name)
        \/ Contains(needles, ClientIdText(node))
        \/ Contains(ips, Some(node.priv_ip))
        \/ Contains(ips, Some(node.pub_ip))

\* self.into_iter().filter(..).collect()
find_needles(nodes, needles) ==
    LET Keep(node) == NeedlesMatch(node, needles)
    IN  SelectSeq(nodes, Keep)

\* ---- inputs of the resolver ----
Node(id, name, priv, pub, client) ==
    [id |-> id, name |-> name, priv_ip |-> priv, pub_ip |-> pub, nixos |-> "nixos-1",
     nomad_client |-> client]

FindNodes ==
    {Node("i-1", "web-1", Ip1, PubIp1,
          Some([Client("abc", Some(Ip1)) EXCEPT !.allocs = Some(<< >>)])),
     Node("i-2", "", Ip2, PubIp2, None),
     Node("i-3", "web-1", no_ip, no_ip, None),
     Node("i-4", "core-1", Ip1, PubIp2,
          Some([Client("def", Some(Ip1)) EXCEPT !.allocs = Some(<< >>)]))}

Needles ==
    {"i-1", "web-1", "", "10.0.0.1", "54.0.0.2", "0.0.0.0", "nomatch",
     "00000000-0000-0000-0000-000000000abc",
     "00000000-0000-0000-0000-000000000ABC",
     "00000000-0000-0000-0000-000000000000"}

FindPending == [k |-> "Pending"]

InitFind ==
    /\ findIn \in [nodes : SeqsUpTo(FindNodes, MaxNodes),
                   needles : SeqsUpTo(Needles, MaxNeedles)]
    /\ findOut = [one |-> FindPending, many |-> FindPending]
    /\ IdleResolve
    /\ IdleIndex
    /\ IdleJoin
    /\ IdlePipeline

\* nodes.find_needle(needle)
FindNeedle ==
    /\ Len(findIn.needles) = 1
    /\ findOut.one = FindPending
    /\ findOut' = [findOut EXCEPT !.one = find_needle(findIn.nodes, findIn.needles[1])]
    /\ UNCHANGED <<findIn, ivars, jvars, rvars, pvars>>

\* nodes.find_needles(needles)
FindNeedles ==
    /\ findOut.many = FindPending
    /\ findOut' = [findOut EXCEPT
                    !.many = [k |-> "Vec",
                              v |-> find_needles(findIn.nodes, findIn.needles)]]
    /\ UNCHANGED <<findIn, ivars, jvars, rvars, pvars>>

NextFind == FindNeedle \/ FindNeedles

SpecFind == InitFind /\ [][NextFind]_vars

(***************************************************************************)
(* The resolver over declared instances and autoscaling groups:            *)
(* find_instances (bitte_app/mod.rs).  Its strings are sequences of        *)
(* one-character strings.                                                  *)
(***************************************************************************)
MaxStandalone == 2
MaxMembers == 2
MaxPatterns == 2

\* str::contains(pattern)
StrContains(text, pattern) ==
    \E i \in 0..(Len(text) - Len(pattern)) : SubSeq(text, i + 1, i + Len(pattern)) = pattern

\* x.map_or_else(|| "", |y| y.as_str())
MapOrEmpty(o) == IF o = None THEN << >> ELSE Unwrap(o)

\* [instance_id, public_dns_name, public_ip_address, private_dns_name,
\*  private_ip_address].iter().map(..).collect::<String>()
MemberText(info) ==
    MapOrEmpty(info.instance_id) \o MapOrEmpty(info.public_dns_name)
        \o MapOrEmpty(info.public_ip_address) \o MapOrEmpty(info.private_dns_name)
        \o MapOrEmpty(info.private_ip_address)

\* patterns.iter().any(|pattern| [private_ip, public_ip, name].contains(pattern))
StandaloneMatches(instance, patterns) ==
    \E j \in 1..Len(patterns) :
        patterns[j] \in {instance.private_ip, instance.public_ip, instance.name}

\* faulty variant: the pattern is looked for in each field on its own
MemberMatchesPerField(info, patterns) ==
    \E j \in 1..Len(patterns) :
        \/ StrContains(MapOrEmpty(info.instance_id), patterns[j])
        \/ StrContains(MapOrEmpty(info.public_dns_name), patterns[j])
        \/ StrContains(MapOrEmpty(info.public_ip_address), patterns[j])
        \/ StrContains(MapOrEmpty(info.private_dns_name), patterns[j])
        \/ StrContains(MapOrEmpty(info.private_ip_address), patterns[j])

\* patterns.iter().any(|pattern| <the concatenation>.contains(pattern))
MemberMatches(info, patterns) ==
    \E j \in 1..Len(patterns) : StrContains(MemberText(info), patterns[j])

\* Instance::new
NewInstance(public_ip, name, uid, flake_attr, s3_cache) ==
    [public_ip |-> public_ip, name |-> name, uid |-> uid, flake_attr |-> flake_attr,
     s3_cache |-> s3_cache]

\* the first loop: for instance in output.instances.values()
RECURSIVE StandaloneLoop(_, _, _, _)
StandaloneLoop(instances, patterns, s3_cache, results) ==
    IF instances = << >> THEN results
    ELSE LET instance == Head(instances)
             pushed == IF StandaloneMatches(instance, patterns)
                          THEN Append(results,
                                      NewInstance(instance.public_ip, instance.name,
                                                  instance.uid, instance.flake_attr,
                                                  s3_cache))
                          ELSE results
         IN  StandaloneLoop(Tail(instances), patterns, s3_cache, pushed)

\* for instance_info in instance_infos: a match is pushed only
\* if let Some(ip) = instance_info.public_ip_address
RECURSIVE MemberLoop(_, _, _, _, _)
MemberLoop(infos, asg, patterns, s3_cache, results) ==
    IF infos = << >> THEN results
    ELSE LET info == Head(infos)
             pushed == IF MemberMatches(info, patterns) /\ info.public_ip_address /= None
                          THEN Append(results,
                                      NewInstance(Unwrap(info.public_ip_address),
                                                  MapOrEmpty(info.instance_id),
                                                  asg.uid, asg.flake_attr, s3_cache))
                          ELSE results
         IN  MemberLoop(Tail(infos), asg, patterns, s3_cache, pushed)

\* if let Some(asgs) = output.asgs { for (_, asg) in asgs { .. } }: the
\* members of a group are what asg_info and instance_info report for it
RECURSIVE AsgLoop(_, _, _, _)
AsgLoop(asgs, patterns, s3_cache, results) ==
    IF asgs = << >> THEN results
    ELSE AsgLoop(Tail(asgs), patterns, s3_cache,
                 MemberLoop(Head(asgs).members, Head(asgs), patterns, s3_cache, results))

find_instances(output, patterns) ==
    LET first == StandaloneLoop(output.instances, patterns, output.s3_cache, << >>)
    IN  IF output.asgs = None THEN first
        ELSE AsgLoop(Unwrap(output.asgs), patterns, output.s3_cache, first)

\* ---- inputs of find_instances ----
StandaloneInstance(private_ip, public_ip, name) ==
    [private_ip |-> private_ip, public_ip |-> public_ip, name |-> name,
     uid |-> "uid-core", flake_attr |-> "flake-core"]

Standalones ==
    {StandaloneInstance(<<"a">>, <<"b">>, <<"c", "d">>),
     StandaloneInstance(<<"b">>, <<"a", "b">>, << >>)}

InstanceInfo(id, pub_dns, pub_ip, priv_dns, priv_ip) ==
    [instance_id |-> id, public_dns_name |-> pub_dns, public_ip_address |-> pub_ip,
     private_dns_name |-> priv_dns, private_ip_address |-> priv_ip]

Members ==
    {InstanceInfo(Some(<<"a", "b">>), Some(<<"c">>), Some(<<"d">>), None, Some(<<"a">>)),
     InstanceInfo(Some(<<"c", "d">>), None, None, None, Some(<<"b">>)),
     InstanceInfo(None, None, Some(<<"b">>), None, None)}

Asg(members) == [uid |-> "uid-asg", flake_attr |-> "flake-asg", members |-> members]

Patterns ==
    {<< >>, <<"a">>, <<"b", "c">>, <<"c", "d">>, <<"d", "b">>, <<"x">>}

Outputs ==
    [instances : SeqsUpTo(Standalones, MaxStandalone),
     asgs : {None, Some(<< >>)} \cup {Some(<<Asg(m)>>) : m \in SeqsUpTo(Members, MaxMembers)},
     s3_cache : {"s3://cache"}]

ResolvePending == [k |-> "Pending"]

InitResolve ==
    /\ resIn \in [output : Outputs, patterns : SeqsUpTo(Patterns, MaxPatterns)]
    /\ resOut = ResolvePending
    /\ IdleIndex
    /\ IdleJoin
    /\ IdleFind
    /\ IdlePipeline

\* find_instances(patterns)
FindInstances ==
    /\ resOut = ResolvePending
    /\ resOut' = [k |-> "Vec", v |-> find_instances(resIn.output, resIn.patterns)]
    /\ UNCHANGED <<resIn, ivars, jvars, fvars, pvars>>

NextResolve == FindInstances

SpecResolve == InitResolve /\ [][NextResolve]_vars

(***************************************************************************)
(* Claims about the index normalizer (checked under SpecIndex).            *)
(***************************************************************************)
OkInt(numeral) == [k |-> "Ok", v |-> [t |-> "Int", v |-> numeral]]

\* a decimal numeral as one writes it: digits, no leading zero except "0"
IsCanonicalNumeral(ds) ==
    /\ ds /= << >>
    /\ IsDigitString(ds)
    /\ (Len(ds) > 1 => ds[1] /= "0")

\* s is <prefix>[<N>]: the text between its last "[" and its final "]" is a
\* canonical numeral
OpenBrackets(s) == {i \in 1..Len(s) : s[i] = "["}
Max(S) == CHOOSE x \in S : \A y \in S : x >= y
BracketNumeral(s) == SubSeq(s, Max(OpenBrackets(s)) + 1, Len(s) - 1)
HasBracketForm(s) ==
    /\ Len(s) >= 3
    /\ s[Len(s)] = "]"
    /\ OpenBrackets(s) /= {}
    /\ IsCanonicalNumeral(BracketNumeral(s))

IndexDecoded == idxOut /= IndexPending

\* C9 as stated: <prefix>[<N>] yields N for every non-negative integer N, and
\* every bare non-negative integer is returned as it is.
C9_AnyInteger ==
    IndexDecoded =>
        /\ (idxIn.t = "str" /\ HasBracketForm(idxIn.v)
                => idxOut = OkInt(BracketNumeral(idxIn.v)))
        /\ (idxIn.t = "int" /\ ~idxIn.neg => idxOut = OkInt(idxIn.v))

\* C9 amended: <prefix>[<N>] yields N, and a bare integer N is returned as
\* it is, for every N from 0 to u32::MAX (4294967295).
C9_IndexWithinU32 ==
    IndexDecoded =>
        /\ (idxIn.t = "str" /\ HasBracketForm(idxIn.v) /\ FitsU32(BracketNumeral(idxIn.v))
                => idxOut = OkInt(BracketNumeral(idxIn.v)))
        /\ (idxIn.t = "int" /\ ~idxIn.neg /\ FitsU32(idxIn.v)
                => idxOut = OkInt(idxIn.v))

\* a bracketed u32::MAX behind a prefix that itself holds a digit was decoded
C9_Witness ==
    /\ idxIn = JsonStr(Bracketed(<<"g", "2">>, U32MaxNumeral))
    /\ idxOut = OkInt(U32MaxNumeral)

\* the digits that directly precede the last character of s
RECURSIVE DigitRunBefore(_, _)
DigitRunBefore(s, i) ==
    IF i >= 1 /\ s[i] \in Digits THEN Append(DigitRunBefore(s, i - 1), s[i]) ELSE << >>

\* no trailing numeral can be extracted from s
NoNumeral(s) ==
    \/ s = << >>
    \/ s[Len(s)] /= "]"
    \/ DigitRunBefore(s, Len(s) - 1) = << >>
    \/ ~FitsU32(StripZeros(DigitRunBefore(s, Len(s) - 1)))

\* C10: a string without an extractable trailing numeral makes the decode
\* return an error result (never an integer, never a default).
C10_MalformedIsDecodeError ==
    IndexDecoded /\ idxIn.t = "str" /\ NoNumeral(idxIn.v) => idxOut = [k |-> "Err"]

\* what the decode does produce on such a string: never a value
C10_MalformedNeverValue ==
    IndexDecoded /\ idxIn.t = "str" /\ NoNumeral(idxIn.v) => idxOut.k /= "Ok"

C10_Witness ==
    /\ idxIn = JsonStr(<<"g", "[", "]">>)
    /\ IndexDecoded

(***************************************************************************)
(* Claims about the join (checked under SpecJoin).                         *)
(***************************************************************************)
Joined == joinOut /= JoinPending

\* the clients whose address is the node's private address
ClientsAt(clients, ip) == {i \in 1..Len(clients) : clients[i].address = Some(ip)}

WithoutAllocs(client) == [client EXCEPT !.allocs = None]

\* C7: the node has a client attached iff some fetched client's address is
\* the node's private address; the attached client is a fetched client with
\* that address; a client without an address is never attached.
C7_JoinByPrivateAddress ==
    Joined =>
        /\ joinOut.nomad_client /= None
              <=> ClientsAt(joinIn.clients, joinOut.priv_ip) /= {}
        /\ joinOut.nomad_client /= None =>
              /\ Unwrap(joinOut.nomad_client).address = Some(joinOut.priv_ip)
              /\ Unwrap(joinOut.nomad_client).address /= None
              /\ \E i \in ClientsAt(joinIn.clients, joinOut.priv_ip) :
                    WithoutAllocs(Unwrap(joinOut.nomad_client)) = joinIn.clients[i]

\* an instance at 10.0.0.1 was joined with a client at that address although
\* an address-less client came first in the list
C7_Witness ==
    /\ Joined
    /\ Len(joinIn.clients) = 2
    /\ joinIn.clients[1].address = None
    /\ joinIn.clients[2].address = Some(Ip1)
    /\ joinOut.priv_ip = Ip1
    /\ joinOut.nomad_client /= None

\* the name the node has before the backfill, and the declared instances at
\* the node's private address
NameBeforeBackfill == FromInstance(joinIn.instance).name
DeclaredAt(ip) ==
    {i \in 1..Len(joinIn.declared) :
        IpFromStr(joinIn.declared[i].private_ip) = [k |-> "Ok", v |-> ip]}

\* C8: an empty name is replaced by the name of a declared instance at the
\* node's private address, and stays empty when there is none; a non-empty
\* name is kept.
C8_NameBackfill ==
    Joined =>
        /\ NameBeforeBackfill /= "" => joinOut.name = NameBeforeBackfill
        /\ NameBeforeBackfill = "" /\ DeclaredAt(joinOut.priv_ip) = {}
              => joinOut.name = ""
        /\ NameBeforeBackfill = "" /\ DeclaredAt(joinOut.priv_ip) /= {}
              => \E i \in DeclaredAt(joinOut.priv_ip) :
                    joinOut.name = joinIn.declared[i].name

\* a named node kept its name although a declared instance has its address
C8_Witness ==
    /\ Joined
    /\ NameBeforeBackfill = "web-1"
    /\ DeclaredAt(joinOut.priv_ip) /= {}
    /\ joinOut.name = "web-1"

\* an unnamed node took the name of the declared instance at its address
C8_WitnessBackfilled ==
    /\ Joined
    /\ NameBeforeBackfill = ""
    /\ DeclaredAt(joinOut.priv_ip) /= {}
    /\ joinOut.name = "core-0"

(***************************************************************************)
(* Claims about the cache front end and the snapshot builder (checked      *)
(* under Spec).                                                            *)
(***************************************************************************)
Returned == pc = "done"
ReturnedOk == Returned /\ Unwrap(ret).k = "Ok"

\* init made no call of new
NoBuild == calls = << >>

\* C1: a snapshot returned without a call of new has an expiry not earlier
\* than the instant of the ttl check; a snapshot whose expiry was past at
\* the check is returned only after new was called.
C1_CachedNeverStale ==
    ReturnedOk =>
        /\ NoBuild => /\ checkedAt /= None
                      /\ Unwrap(checkedAt) <= Unwrap(ret).v.ttl
        /\ (checkedAt /= None /\ Unwrap(ret).v.ttl < Unwrap(checkedAt)) => ~NoBuild

\* a later run got the snapshot an earlier run wrote, at the very instant
\* of its expiry
C1_Witness ==
    /\ ReturnedOk
    /\ NoBuild
    /\ runs = 2
    /\ Unwrap(ret).v.nodes /= << >>
    /\ Unwrap(ret).v.ttl = Unwrap(checkedAt)

\* the record in the file init read, when it deserializes
CacheParses == Deserialize(Unwrap(opened)).k = "Ok"
CachedRecord == Deserialize(Unwrap(opened)).v

\* the cached record is returned as it was read; no token was resolved, no
\* task spawned, the environment not touched
ServedFromCache ==
    /\ NoBuild
    /\ ret = Some(OkRet(CachedRecord))
    /\ \A id \in TaskIds : task[id] = "idle"
    /\ handles = << >>
    /\ apiClient = None
    /\ nomadToken = env.NOMAD_TOKEN

\* new was called and init returned what the (last) call returned
Rebuilt ==
    /\ ~NoBuild
    /\ ret = newRet

\* C2 as stated: the cache is served exactly when the file is present,
\* deserializes and its expiry is strictly later than now; in every other
\* case (expiry = now included) new is called and its result returned.
C2_ServedIffStrictlyLater ==
    Returned =>
        IF CacheParses /\ checkedAt /= None /\ CachedRecord.ttl > Unwrap(checkedAt)
            THEN ServedFromCache ELSE Rebuilt

\* C2 amended: the cache is served exactly when the file is present,
\* deserializes and its expiry is not earlier than now (expiry = now is
\* served); in every other case new is called and its result returned.
C2_ServedIffNotEarlier ==
    Returned =>
        IF CacheParses /\ checkedAt /= None /\ CachedRecord.ttl >= Unwrap(checkedAt)
            THEN ServedFromCache ELSE Rebuilt

\* a record whose expiry is the instant of the check was served
C2_Witness ==
    /\ Returned
    /\ CacheParses
    /\ CachedRecord.ttl = Unwrap(checkedAt)
    /\ ServedFromCache

\* a record one second past its expiry was rebuilt
C2_WitnessRebuilt ==
    /\ Returned
    /\ CacheParses
    /\ CachedRecord.ttl + 1 = Unwrap(checkedAt)
    /\ Rebuilt
    /\ Unwrap(ret).k = "Ok"

\* C3: when new fails, init returns that failure, and a snapshot returned
\* after a call of new is the one that call built, never the cached one.
C3_RebuildFailurePropagates ==
    Returned /\ ~NoBuild =>
        /\ Unwrap(newRet).k = "Err" => ret = newRet
        /\ Unwrap(ret).k = "Ok" => ret = newRet

\* the rebuild of an expired cache failed on a region query, with the
\* expired cluster still in init's hands
C3_Witness ==
    /\ Returned
    /\ site = "expired"
    /\ cluster /= None
    /\ Unwrap(cluster).ttl < Unwrap(checkedAt)
    /\ newRet = Some(ErrRet("region"))
    /\ ret = newRet

\* find_nodes returned Ok in the running call of new
CorrelationSucceeded ==
    /\ handles /= << >>
    /\ fn.k = Len(handles) + 1

\* C4: once the correlation has succeeded new returns the snapshot, whether
\* the cache file cannot be created or cannot be written.
C4_PersistFailureNeverFatal ==
    newRet /= None /\ CorrelationSucceeded => Unwrap(newRet).k = "Ok"

BuiltOk == newRet /= None /\ Unwrap(newRet).k = "Ok"
BuildFailed == newRet /= None /\ Unwrap(newRet).k = "Err"

\* the names of the built nodes at the private address 10.0.0.1, whose
\* cloud instance carries no name
NamesAtIp1 ==
    {Unwrap(newRet).v.nodes[i].name :
        i \in {j \in 1..Len(Unwrap(newRet).v.nodes) :
                  Unwrap(newRet).v.nodes[j].priv_ip = Ip1}}

UsesWorkspace(ws) ==
    /\ fn.state = Some(TerraformOutput(ws))
    /\ BuiltOk =>
          /\ Unwrap(newRet).v.s3_cache = TerraformOutput(ws).s3_cache
          /\ NamesAtIp1 = {TerraformOutput(ws).instances[1].name}

\* C5 as stated: a "clients" fetch that succeeded is the state used; a
\* "clients" fetch that failed in any way is never what fails the build, and
\* with "core" succeeding the build uses the "core" output.
C5_FallbackOnAnyFailure ==
    /\ (task.tf_clients = "ok" /\ fn.state /= None) => UsesWorkspace("clients")
    /\ (task.tf_clients \in {"err", "panic"} /\ BuildFailed)
          => Unwrap(newRet).why \notin {"tf_clients"}
    /\ (task.tf_clients \in {"err", "panic"} /\ task.tf_core = "ok")
          => UsesWorkspace("core")

\* C5 amended: as stated, for a "clients" fetch that returned an error; a
\* "clients" task that panicked (a JoinError) fails the build.
C5_FallbackOnFetchError ==
    /\ (task.tf_clients = "ok" /\ fn.state /= None) => UsesWorkspace("clients")
    /\ (task.tf_clients = "err" /\ BuildFailed)
          => Unwrap(newRet).why \in {"tf_core", "region", "cache-write"}
    /\ (task.tf_clients = "err" /\ task.tf_core = "ok") => UsesWorkspace("core")
    /\ (task.tf_clients = "err" /\ task.tf_core = "ok" /\ BuildFailed)
          => Unwrap(newRet).why \in {"region", "cache-write"}
    /\ task.tf_clients = "panic" => newRet = Some(ErrRet("tf_clients"))

\* "clients" returned an error, "core" answered, and the snapshot carries
\* the cache id and the backfilled name of "core"
C5_Witness ==
    /\ task.tf_clients = "err"
    /\ task.tf_core = "ok"
    /\ BuiltOk
    /\ Unwrap(newRet).v.s3_cache = "s3://core-cache"
    /\ NamesAtIp1 = {"core-0-from-core"}

\* a fetch the snapshot cannot do without was seen to fail
FatalFetchFailure ==
    \/ task.allocs \in {"err", "panic"}
    \/ task.clients \in {"err", "panic"}
    \/ \E i \in 1..Len(handles) : handles[i].st = "err"
    \/ task.tf_clients \in {"err", "panic"} /\ task.tf_core \in {"err", "panic"}

\* C6: when the allocation fetch, the client fetch, a region query or both
\* workspace fetches fail, new returns an error, no snapshot, and the cache
\* file is as it was when new was called.
C6_NoPartialSnapshot ==
    (newRet /= None /\ FatalFetchFailure) =>
        /\ Unwrap(newRet).k = "Err"
        /\ file = Unwrap(fileAtNew)
        /\ Returned /\ Unwrap(ret).k = "Err"

\* the first region was joined, the second region's query failed
C6_Witness ==
    /\ newRet /= None
    /\ Len(handles) = 2
    /\ handles[1].st = "ok"
    /\ handles[2].st = "err"
    /\ fn.result /= << >>
    /\ Unwrap(newRet).k = "Err"
    /\ file = Unwrap(fileAtNew)

(***************************************************************************)
(* Claims about the resolver over the node collection (checked under       *)
(* SpecFind).                                                              *)
(***************************************************************************)
\* the identifier union as the specification words it: the orchestrator
\* client's id counts only for a node that has a client attached
AttachedClientIdIs(node, needle) ==
    /\ node.nomad_client /= None
    /\ UuidToHyphenated(Unwrap(node.nomad_client).id) = needle

AddressIs(address, needle) ==
    IpFromStr(needle).k = "Ok" /\ IpFromStr(needle).v = address

OwnIdentifierIs(node, needle) ==
    \/ node.id = needle
    \/ node.name = needle
    \/ AddressIs(node.priv_ip, needle)
    \/ AddressIs(node.pub_ip, needle)

Satisfies(node, needle) ==
    OwnIdentifierIs(node, needle) \/ AttachedClientIdIs(node, needle)

SatisfiesAny(node, needles) ==
    \E j \in 1..Len(needles) : Satisfies(node, needles[j])

FoundOne == findOut /= << >> /\ findOut.one /= FindPending
FoundMany == findOut /= << >> /\ findOut.many /= FindPending

\* C11: find_needle returns the first node, in iteration order, whose id,
\* name, attached-client id, private address or public address is the
\* needle, and fails with an error when no node has the needle as one of these
C11_FirstMatchOrNotFound ==
    FoundOne =>
        LET nodes == findIn.nodes
            needle == findIn.needles[1]
            hits == {i \in 1..Len(nodes) : Satisfies(nodes[i], needle)}
        IN  IF hits = {} THEN findOut.one.k = "Err"
            ELSE findOut.one = [k |-> "Ok", v |-> nodes[Min(hits)]]

\* C12: find_needles returns exactly the nodes that have some needle as one
\* of their identifiers, in the collection's order; nothing for no needles;
\* for one needle its first element is the node find_needle returns
C12_AllMatchesInOrder ==
    /\ FoundMany =>
          LET Matching(node) == SatisfiesAny(node, findIn.needles)
          IN  /\ findOut.many.v = SelectSeq(findIn.nodes, Matching)
              /\ (findIn.needles = << >> => findOut.many.v = << >>)
    /\ (FoundMany /\ FoundOne /\ findOut.one.k = "Ok") =>
          /\ findOut.many.v /= << >>
          /\ findOut.many.v[1] = findOut.one.v

\* C18: a node without a client is returned by find_needle or find_needles
\* only for a needle that is its id, its name or one of its two addresses
C18_ClientlessOnlyByOwnIdentifier ==
    /\ (FoundOne /\ findOut.one.k = "Ok" /\ findOut.one.v.nomad_client = None) =>
          OwnIdentifierIs(findOut.one.v, findIn.needles[1])
    /\ FoundMany =>
          \A i \in 1..Len(findOut.many.v) :
              findOut.many.v[i].nomad_client = None =>
                  \E j \in 1..Len(findIn.needles) :
                      OwnIdentifierIs(findOut.many.v[i], findIn.needles[j])

(***************************************************************************)
(* Claims about find_instances (checked under SpecResolve).                *)
(***************************************************************************)
Resolved == resOut /= << >> /\ resOut /= ResolvePending

ResultSet == {resOut.v[i] : i \in 1..Len(resOut.v)}

\* declared standalone instances with a pattern equal to one of their three fields
StandaloneHits ==
    {i \in 1..Len(resIn.output.instances) :
        \E j \in 1..Len(resIn.patterns) :
            LET inst == resIn.output.instances[i]
            IN  \/ resIn.patterns[j] = inst.private_ip
                \/ resIn.patterns[j] = inst.public_ip
                \/ resIn.patterns[j] = inst.name}

AsgMembers ==
    IF resIn.output.asgs = None \/ resIn.output.asgs = Some(<< >>) THEN << >>
    ELSE Unwrap(resIn.output.asgs)[1].members

Opt(o) == IF o = None THEN << >> ELSE o[1]

\* the one concatenation id ++ public-dns ++ public-ip ++ private-dns ++ private-ip
Concatenation(m) ==
    Opt(m.instance_id) \o Opt(m.public_dns_name) \o Opt(m.public_ip_address)
        \o Opt(m.private_dns_name) \o Opt(m.private_ip_address)

IsInfix(p, text) ==
    \E a, b \in 0..Len(text) :
        a + Len(p) + b = Len(text) /\ SubSeq(text, a + 1, a + Len(p)) = p

\* autoscaling-group members with a pattern inside their concatenation
MemberHits ==
    {i \in 1..Len(AsgMembers) :
        \E j \in 1..Len(resIn.patterns) :
            IsInfix(resIn.patterns[j], Concatenation(AsgMembers[i]))}

AddressedMemberHits == {i \in MemberHits : AsgMembers[i].public_ip_address /= None}

InstanceOfStandalone(inst) ==
    [public_ip |-> inst.public_ip, name |-> inst.name, uid |-> inst.uid,
     flake_attr |-> inst.flake_attr, s3_cache |-> resIn.output.s3_cache]

InstanceOfMember(m) ==
    [public_ip |-> Opt(m.public_ip_address), name |-> Opt(m.instance_id),
     uid |-> "uid-asg", flake_attr |-> "flake-asg", s3_cache |-> resIn.output.s3_cache]

\* C13 as stated: the result holds every matching standalone instance and
\* every autoscaling-group member that has a pattern inside its
\* concatenation, and nothing else
C13_EveryMatchingMember ==
    Resolved =>
        /\ ResultSet = {InstanceOfStandalone(resIn.output.instances[i]) : i \in StandaloneHits}
                          \cup {InstanceOfMember(AsgMembers[i]) : i \in MemberHits}
        /\ Len(resOut.v) = Cardinality(StandaloneHits) + Cardinality(MemberHits)

\* C13 amended: the result holds every matching standalone instance and
\* every autoscaling-group member that has a public address and a pattern
\* inside its concatenation (a pattern across the boundary of two fields
\* included), and nothing else
C13_EveryMatchingAddressedMember ==
    Resolved =>
        /\ ResultSet = {InstanceOfStandalone(resIn.output.instances[i]) : i \in StandaloneHits}
                          \cup {InstanceOfMember(AsgMembers[i]) : i \in AddressedMemberHits}
        /\ Len(resOut.v) = Cardinality(StandaloneHits) + Cardinality(AddressedMemberHits)

\* a member matched only by a pattern that spans two of its fields is in the result
C13_Witness ==
    /\ Resolved
    /\ resIn.patterns = <<<<"b", "c">>>>
    /\ Len(AsgMembers) = 1
    /\ AddressedMemberHits = {1}
    /\ resOut.v = <<InstanceOfMember(AsgMembers[1])>>

(***************************************************************************)
(* Claims about the snapshot's nodes, the order of the awaits and the      *)
(* token (checked under Spec).                                             *)
(***************************************************************************)
\* the distinct regions named by AWS_ASG_REGIONS or AWS_DEFAULT_REGION
NamedRegions ==
    LET asg == Unwrap(env.AWS_ASG_REGIONS)
        def == Unwrap(env.AWS_DEFAULT_REGION)
    IN  {asg[i] : i \in 1..Len(asg)} \cup {def[i] : i \in 1..Len(def)}

\* the ids of the running instances the provider reports in a region
RunningIds(r) ==
    {Unwrap(RegionInstances(r)[i].instance_id) : i \in 1..Len(RegionInstances(r))}

\* C14: a built snapshot holds exactly one node per running instance of the
\* named regions, each distinct region having been queried exactly once
\* (also when the default region is in the ASG list), and its node ids are
\* pairwise different
C14_OneNodePerInstance ==
    BuiltOk =>
        LET nodes == Unwrap(newRet).v.nodes
        IN  /\ \A r \in NamedRegions :
                  Cardinality({i \in 1..Len(handles) : handles[i].region = r}) = 1
            /\ Len(handles) = Cardinality(NamedRegions)
            /\ \A r \in NamedRegions : \A id \in RunningIds(r) :
                  Cardinality({j \in 1..Len(nodes) : nodes[j].id = id}) = 1
            /\ Len(nodes) = Cardinality(UNION {RunningIds(r) : r \in NamedRegions})
            /\ \A i, j \in 1..Len(nodes) : i /= j => nodes[i].id /= nodes[j].id

\* a snapshot was built with the default region also in the ASG list
C14_Witness ==
    /\ BuiltOk
    /\ env.AWS_ASG_REGIONS = Some(<<"us-east-2", "eu-central-1">>)
    /\ env.AWS_DEFAULT_REGION = Some(<<"eu-central-1">>)
    /\ Len(Unwrap(newRet).v.nodes) = 2

\* find_nodes has joined the instances of at least one region
JoinBegun == fn.k > 1

Observed(st) == st \in Finished

FetchFailedBuild ==
    /\ BuildFailed
    /\ Unwrap(newRet).why \in {"allocs", "clients", "tf_clients", "tf_core", "region"}

\* a launched task whose JoinHandle was never awaited: still running, or
\* ended with nobody having looked at its result
Unawaited(st) == st \in {"running", "finished"}

\* C16: when new returns the error of a fetch task, every launched fetch
\* task has been awaited to its end; none is still running or un-awaited
C16_DrainedOnFailure ==
    FetchFailedBuild =>
        /\ \A id \in TaskIds : ~Unawaited(task[id])
        /\ \A i \in 1..Len(handles) : ~Unawaited(handles[i].st)

(***************************************************************************)
(* Allocation attachment (checked under SpecJoin).                         *)
(***************************************************************************)
\* the positions in the fetched list of the allocations placed on a node id
PlacedOn(id) == {i \in 1..Len(joinIn.allocs) : joinIn.allocs[i].node_id = id}

\* the k-th of these positions, counted from the front of the list
KthPlaced(id, k) ==
    CHOOSE i \in PlacedOn(id) : Cardinality({j \in PlacedOn(id) : j <= i}) = k

\* C17: a node's attached client carries an allocation set, which holds
\* exactly the fetched allocations whose node id is the client's id, in the
\* fetched order, and no allocation of another node
C17_AllocsOfAttachedClient ==
    (Joined /\ joinOut.nomad_client /= None) =>
        LET client == Unwrap(joinOut.nomad_client)
        IN  /\ client.allocs /= None
            /\ Len(Unwrap(client.allocs)) = Cardinality(PlacedOn(client.id))
            /\ \A k \in 1..Len(Unwrap(client.allocs)) :
                  /\ Unwrap(client.allocs)[k].node_id = client.id
                  /\ Unwrap(client.allocs)[k] = joinIn.allocs[KthPlaced(client.id, k)]

\* the client "abc" got its two allocations, in the fetched order, out of a
\* list that starts with an allocation of another node
C17_Witness ==
    /\ Joined
    /\ joinOut.nomad_client /= None
    /\ Unwrap(joinOut.nomad_client).id = "abc"
    /\ Len(joinIn.allocs) = 3
    /\ joinIn.allocs[1].node_id = "def"
    /\ Len(Unwrap(Unwrap(joinOut.nomad_client).allocs)) = 2
    /\ Unwrap(Unwrap(joinOut.nomad_client).allocs)[1].id = "a2"

(***************************************************************************)
(* Token resolution and the cache file (checked under Spec).               *)
(***************************************************************************)
\* new failed on the error of nomad_token()
AuthFailedBuild == BuildFailed /\ Unwrap(newRet).why = "nomad_token"

\* C19: with NOMAD_TOKEN set when the command starts, new uses that token,
\* never fails on the auth collaborator and leaves the variable as it was;
\* without it, the collaborator's token is used and stored in the variable
C19_TokenReusedWithoutAuth ==
    /\ (env.NOMAD_TOKEN /= None /\ calls /= << >>) =>
          /\ nomadToken = env.NOMAD_TOKEN
          /\ ~AuthFailedBuild
          /\ apiClient /= None => apiClient = env.NOMAD_TOKEN
    /\ (env.NOMAD_TOKEN = None /\ apiClient /= None) =>
          /\ nomadToken = Some("auth-token")
          /\ apiClient = Some("auth-token")

\* .cache.json is not what it was when the running (or last) call of new began
WrittenByThisBuild == fileAtNew /= None /\ file /= Unwrap(fileAtNew)

\* an earlier call of new in this init changed the file
WrittenByEarlierBuild ==
    Len(calls) = 2 /\ Unwrap(fileAtNew) /= Unwrap(opened)

\* C20: within one init the cache file is written at most once and only at
\* the end of a build whose correlation succeeded, and a build that fails
\* leaves the file's contents as they were
C20_CacheFileDiscipline ==
    /\ WrittenByThisBuild => CorrelationSucceeded
    /\ ~(WrittenByEarlierBuild /\ WrittenByThisBuild)
    /\ BuildFailed => file = Unwrap(fileAtNew)

(***************************************************************************)
(* Tags of a cloud instance (checked under SpecJoin).                      *)
(***************************************************************************)
\* the value of the instance's tag with this key, wherever it stands in the
\* tag list; empty when the instance has no such tag
TagValue(instance, key) ==
    LET at == {i \in 1..Len(instance.tags) : instance.tags[i].key = Some(key)}
    IN  IF at = {} THEN ""
        ELSE LET i == CHOOSE i \in at : TRUE
             IN  IF instance.tags[i].value = None THEN ""
                 ELSE instance.tags[i].value[1]

\* C21: whatever the order of the instance's tags, the node's name is the
\* value of its "Name" tag and its nixos is the value of its "UID" tag
\* (a "Name" tag before the "UID" tag, or without a "UID" tag, included)
C21_TagOrderIndependent ==
    Joined =>
        /\ joinOut.nixos = TagValue(joinIn.instance, "UID")
        /\ NameBeforeBackfill = TagValue(joinIn.instance, "Name")
        /\ TagValue(joinIn.instance, "Name") /= "" =>
              joinOut.name = TagValue(joinIn.instance, "Name")

====
